---- MODULE Spec2Model ----
(***************************************************************************)
(* Track transport of the looper pedal board (src/script.js, class Looper) *)
(* as a state machine: the per-track record / play / overdub / stop state, *)
(* the master clock derived from track 1, the deferred callbacks           *)
(* (setTimeout) and the asynchronous replies of the recorder worklet and   *)
(* of the overdub MediaRecorder.                                           *)
(*                                                                         *)
(* Units.  Time (audioCtx.currentTime, loopStartTime, timer due times) and *)
(* every duration (loopDuration, masterLoopDuration) are counted in sample *)
(* periods, so buffer.duration of an AudioBuffer is its length.  The track *)
(* divider (0.5, 1, 2) and the requested capture length targetLenSec are   *)
(* stored doubled, so that the half-sample values the code computes with   *)
(* divider 0.5 stay integers.  null is Null.                               *)
(***************************************************************************)
EXTENDS Integers, Sequences, FiniteSets, TLC

\* ---------------------------------------------------------------- bounds
NumTracks == 2        \* tracks built (track 1 = master, the others subordinate)
MaxTime == 4          \* the clock stops advancing here
MaxRecSec == 4        \* longest master recording, in seconds (the code's 60)
SampleRate == 1       \* frames per second of the audio context
MaxLate == 0          \* how many sample periods late a timer may fire
MaxTimers == 2        \* pending deferred callbacks
MaxInFlight == 1      \* recorder replies in flight per track
MaxPresses == 5       \* button presses and selector changes in one run
MaxChannels == 2      \* channels of an audio buffer
MaxBufLen == 2        \* frames of an audio buffer whose samples are modelled
MaxChain == 3         \* effects in one track's After-FX chain
MaxBlocks == 3        \* render quanta the recorder worklet is given in one run
RenderQuantum == 2    \* frames of one render quantum (the browser's 128)
NumKeys == 2          \* keys of the synth keyboard that are modelled
MaxVoices == 3        \* Voice objects built in one run

\* ---------------------------------------------------------------- constants
Null == 0
SubDefaultSec == 12
START_MIDI == 48

Tracks == 1..NumTracks
Subs == 2..NumTracks
States == {"ready", "waiting", "recording", "playing", "overdub", "stopped"}
\* the divider selector's values 0.5, 1 and 2, doubled
Dividers == {1, 2, 4}

\* the master's requested maximum, in frames
MaxSamples == MaxRecSec * SampleRate
\* frame counts a capture may report: nothing, a short take, exactly the
\* master's maximum, and more than it (the stop ran late)
FrameCounts == {0, 1, 2, MaxSamples, MaxSamples + 1}

Min(a, b) == IF a < b THEN a ELSE b
Max(a, b) == IF a > b THEN a ELSE b

\* Math.round of the half-integer x2/2
RoundHalf(x2) == (x2 + 1) \div 2
\* the first clock tick at or after x2/2 (a setTimeout never fires early)
CeilHalf(x2) == (x2 + 1) \div 2

VARIABLES
  now,                 \* audioCtx.currentTime
  state,               \* Looper.state
  loopBuffer,          \* Looper.loopBuffer: Null or the buffer's length
  loopDuration,        \* Looper.loopDuration
  loopStartTime,       \* Looper.loopStartTime
  sourceNode,          \* Looper.sourceNode: "null", "live" or "stopped"
  workletNode,         \* Looper.workletNode is non-null
  targetLenSec,        \* Looper.targetLenSec, doubled
  mediaRecorder,       \* Looper.mediaRecorder: "null", "recording", "inactive"
  overdubStartTime,    \* Looper.overdubStartTime
  divider,             \* Looper.divider, doubled
  uiDisabled,          \* Looper.uiDisabled
  masterLoopDuration, masterBPM, masterIsSet,
  timers,              \* pending setTimeout callbacks
  dumps,               \* 'dump' replies of the recorder worklet in flight
  decodes,             \* overdub onstop/decodeAudioData callbacks in flight
  workletReady,        \* audioWorklet.addModule has resolved
  fx,                  \* Looper.fx: the After-FX chain and nextId
  pitchSemitones,      \* Looper.pitchSemitones
  wiring,              \* the playback path of a track: source connected, through which effects
  beforeDelay,         \* Before-FX delay: delaySyncMode, delayDivision, delayVariant,
                       \* delayMs and delayNode.delayTime.value (seconds, a fraction)
  presses,             \* user gestures handled so far (bounds the run)
  overdubMerge,        \* the buffers of one overdub merge: old, new, out
  recorder,            \* RecorderProcessor: _buffers and the message last posted
  synth                \* the synth keyboard: ac, sustain, activeVoices, heldKeys

vars == <<now, state, loopBuffer, loopDuration, loopStartTime, sourceNode,
          workletNode, targetLenSec, mediaRecorder, overdubStartTime, divider,
          uiDisabled, masterLoopDuration, masterBPM, masterIsSet, timers, dumps,
          decodes, workletReady, fx, pitchSemitones, wiring, beforeDelay,
          presses, overdubMerge, recorder, synth>>

\* RecorderProcessor after its constructor; nothing posted on its port yet
NoMessage == [cmd |-> "none", channels |-> <<>>, length |-> 0]
NewRecorder == [buffers |-> <<>>, posted |-> NoMessage, received |-> 0]

\* the synth page after its script has run: no audio context, hold unchecked
NewSynth ==
  [ac |-> FALSE, sustain |-> FALSE, activeVoices |-> {}, heldKeys |-> {},
   voices |-> 0, sounding |-> {}, releasing |-> {}]

\* the program state as one record, so that a method is a function on it
Cur ==
  [now |-> now, state |-> state, loopBuffer |-> loopBuffer,
   loopDuration |-> loopDuration, loopStartTime |-> loopStartTime,
   sourceNode |-> sourceNode, workletNode |-> workletNode,
   targetLenSec |-> targetLenSec, mediaRecorder |-> mediaRecorder,
   overdubStartTime |-> overdubStartTime,
   divider |-> divider, uiDisabled |-> uiDisabled,
   masterLoopDuration |-> masterLoopDuration, masterBPM |-> masterBPM,
   masterIsSet |-> masterIsSet, timers |-> timers, dumps |-> dumps,
   decodes |-> decodes, workletReady |-> workletReady,
   fx |-> fx, pitchSemitones |-> pitchSemitones, wiring |-> wiring,
   beforeDelay |-> beforeDelay]

Bounded(s) ==
  /\ Cardinality(s.timers) <= MaxTimers
  /\ \A i \in Tracks : s.dumps[i] <= MaxInFlight /\ s.decodes[i] <= MaxInFlight

Becomes(s) ==
  /\ Bounded(s)
  /\ now' = s.now
  /\ state' = s.state
  /\ loopBuffer' = s.loopBuffer
  /\ loopDuration' = s.loopDuration
  /\ loopStartTime' = s.loopStartTime
  /\ sourceNode' = s.sourceNode
  /\ workletNode' = s.workletNode
  /\ targetLenSec' = s.targetLenSec
  /\ mediaRecorder' = s.mediaRecorder
  /\ overdubStartTime' = s.overdubStartTime
  /\ divider' = s.divider
  /\ uiDisabled' = s.uiDisabled
  /\ masterLoopDuration' = s.masterLoopDuration
  /\ masterBPM' = s.masterBPM
  /\ masterIsSet' = s.masterIsSet
  /\ timers' = s.timers
  /\ dumps' = s.dumps
  /\ decodes' = s.decodes
  /\ workletReady' = s.workletReady
  /\ fx' = s.fx
  /\ pitchSemitones' = s.pitchSemitones
  /\ wiring' = s.wiring
  /\ beforeDelay' = s.beforeDelay
  /\ overdubMerge' = overdubMerge
  /\ recorder' = recorder
  /\ synth' = synth

\* a user gesture: its handler runs to completion
Press(s) ==
  /\ presses < MaxPresses
  /\ presses' = presses + 1
  /\ Becomes(s)

\* a timer callback or a message handler runs to completion
Callback(s) ==
  /\ presses' = presses
  /\ Becomes(s)

\* ---------------------------------------------------------------- timers
\* setTimeout(callback, delay): identical pending callbacks are told apart by id
SetTimeout(s, k, i, d) ==
  LET n == Cardinality({t \in s.timers : t.kind = k /\ t.track = i /\ t.due = d})
  IN [s EXCEPT !.timers = @ \cup {[kind |-> k, track |-> i, due |-> d, id |-> n]}]

\* a pending callback may run once its delay has elapsed
Due(t) ==
  /\ t \in timers
  /\ t.due <= now
  /\ ~ \E u \in timers : u.kind = t.kind /\ u.track = t.track /\ u.due = t.due /\ u.id > t.id

Fired(s, t) == [s EXCEPT !.timers = @ \ {t}]

\* ------------------------------------------------ Before-FX delay time
RECURSIVE Gcd(_, _)
Gcd(a, b) == IF b = 0 THEN a ELSE Gcd(b, a % b)

\* the number n/d (n >= 0, d > 0) in lowest terms
Frac(n, d) == LET g == Gcd(n, d) IN [n |-> n \div g, d |-> d \div g]

Times(a, b) == Frac(a.n * b.n, a.d * b.d)

\* clamp(v, lo, hi) for whole lo and hi
clamp(v, lo, hi) ==
  IF v.n > hi * v.d THEN Frac(hi, 1)
  ELSE IF v.n < lo * v.d THEN Frac(lo, 1)
  ELSE v

DelayDivisions == {"1/1", "1/2", "1/4", "1/8", "1/16", "1/32"}
DelayVariants == {"straight", "dotted", "triplet"}
DelayModes == {"note", "ms"}

NOTE_MULT(division) ==
  CASE division = "1/1" -> Frac(4, 1)
    [] division = "1/2" -> Frac(2, 1)
    [] division = "1/4" -> Frac(1, 1)
    [] division = "1/8" -> Frac(1, 2)
    [] division = "1/16" -> Frac(1, 4)
    [] division = "1/32" -> Frac(1, 8)

quarterSecForBPM(bpm) == Frac(60, IF bpm = 0 THEN 120 ELSE bpm)

applyVariant(mult, v) ==
  CASE v = "dotted" -> Times(mult, Frac(3, 2))
    [] v = "triplet" -> Times(mult, Frac(2, 3))
    [] OTHER -> mult

\* the delay time of the milliseconds mode: clamp(delayMs/1000, 0, 2)
delayFromMs(s) == clamp(Frac(s.beforeDelay.ms, 1000), 0, 2)

\* updateDelayFromTempo that falls back to the milliseconds setting when
\* there is no tempo
updateDelayFromTempo_resets(s) ==
  IF s.beforeDelay.mode # "note" THEN s
  ELSE IF s.masterBPM = Null
  THEN [s EXCEPT !.beforeDelay.time = delayFromMs(s)]
  ELSE
    LET quarter == quarterSecForBPM(s.masterBPM)
        finalMult == applyVariant(NOTE_MULT(s.beforeDelay.division),
                                  s.beforeDelay.variant)
    IN [s EXCEPT !.beforeDelay.time = clamp(Times(quarter, finalMult), 0, 2)]

\* updateDelayFromTempo
updateDelayFromTempo(s) ==
  IF s.masterBPM = Null \/ s.beforeDelay.mode # "note" THEN s
  ELSE
    LET quarter == quarterSecForBPM(s.masterBPM)
        finalMult == applyVariant(NOTE_MULT(s.beforeDelay.division),
                                  s.beforeDelay.variant)
    IN [s EXCEPT !.beforeDelay.time = clamp(Times(quarter, finalMult), 0, 2)]

\* ---------------------------------------------------------------- Looper
\* stands for the NaN of JavaScript (no phase or length is negative)
NaN == -1

\* a % d for a >= 0; a % 0 is NaN
JsMod(a, d) == IF d = 0 THEN NaN ELSE a % d

\* a tempo derived from one beat per loop instead of four
TempoOf_oneBeat(len) == (120 * SampleRate + len) \div (2 * len)

\* masterBPM = Math.round((60/this.loopDuration)*4), loopDuration in seconds
TempoOf(len) == (480 * SampleRate + len) \div (2 * len)

\* the ids of the chain's effects that carry signal: not Pitch, not bypassed
ActivePath(chain) ==
  LET live == SelectSeq(chain, LAMBDA e : e.type # "Pitch" /\ ~ e.bypass)
  IN [k \in 1..Len(live) |-> live[k].id]

\* the second loop of _rebuildChainWiring that connects the bypassed
\* effects as well
RECURSIVE connectChain_bypassed(_, _, _)
connectChain_bypassed(chain, k, path) ==
  IF k > Len(chain) THEN path
  ELSE IF chain[k].type = "Pitch"
  THEN connectChain_bypassed(chain, k + 1, path)
  ELSE connectChain_bypassed(chain, k + 1, Append(path, chain[k].id))

\* the second loop of _rebuildChainWiring, from the k-th effect on: path is
\* what is connected behind the source so far, its last node is the head
RECURSIVE connectChain(_, _, _)
connectChain(chain, k, path) ==
  IF k > Len(chain) THEN path
  ELSE IF chain[k].type = "Pitch"
  THEN connectChain(chain, k + 1, path)
  ELSE IF ~ chain[k].bypass
  THEN connectChain(chain, k + 1, Append(path, chain[k].id))
  ELSE connectChain(chain, k + 1, path)

\* Looper._rebuildChainWiring
rebuildChainWiring(s, i) ==
  IF s.sourceNode[i] = "null" THEN s
  ELSE [s EXCEPT !.wiring[i] =
                   [on |-> TRUE, path |-> connectChain(s.fx[i].chain, 1, <<>>)]]

\* the offset "off" that startPlayback computes for a track with a buffer
playbackOffset(s, i) ==
  LET locked == /\ i # 1
                /\ s.masterIsSet
                /\ s.sourceNode[1] # "null"
                /\ s.masterLoopDuration > 0
      raw == IF locked
             THEN JsMod(s.now - s.loopStartTime[1], s.masterLoopDuration)
             ELSE 0
  IN IF raw = NaN \/ raw < 0 \/ raw > s.loopBuffer[i] THEN 0 ELSE raw

\* Looper.startPlayback
startPlayback(s, i) ==
  IF s.loopBuffer[i] = Null THEN s
  ELSE
    LET off == playbackOffset(s, i)
    IN [rebuildChainWiring([s EXCEPT !.sourceNode[i] = "live",
                                     !.loopStartTime[i] = s.now - off], i)
          EXCEPT !.state[i] = "playing"]

\* the loop "for (let k=2;k<=4;k++) if (loopers[k].state==='playing') ..."
RECURSIVE restartPlayingFrom(_, _)
restartPlayingFrom(s, k) ==
  IF k > NumTracks THEN s
  ELSE restartPlayingFrom(
         IF s.state[k] = "playing" THEN startPlayback(s, k) ELSE s, k + 1)

\* Looper.resumePlayback
resumePlayback(s, i) ==
  IF i = 1 THEN restartPlayingFrom(startPlayback(s, 1), 2)
  ELSE startPlayback(s, i)

\* this.sourceNode.stop(); this.sourceNode.disconnect()
stopSource(s, i) ==
  IF s.sourceNode[i] # "null"
  THEN [s EXCEPT !.sourceNode[i] = "stopped", !.wiring[i].on = FALSE]
  ELSE s

\* a stop that also discards the loop, as clearLoop does
stopPlayback_discards(s, i) ==
  [stopSource(s, i) EXCEPT !.state[i] = "stopped",
                           !.loopBuffer[i] = Null,
                           !.loopDuration[i] = 0]

\* Looper.stopPlayback
stopPlayback(s, i) == [stopSource(s, i) EXCEPT !.state[i] = "stopped"]

\* _startWorkletRecording whose catch branch schedules nothing
startWorkletRecording_noFallback(s, i, lenSec2) ==
  LET s1 == [s EXCEPT !.state[i] = "recording",
                      !.loopBuffer[i] = Null,
                      !.targetLenSec[i] = lenSec2]
  IN IF s.workletReady
     THEN SetTimeout([s1 EXCEPT !.workletNode[i] = TRUE], "autoStop", i,
                     s.now + CeilHalf(lenSec2))
     ELSE s1

\* Looper._startWorkletRecording; lenSec2 is the requested length, doubled
startWorkletRecording(s, i, lenSec2) ==
  LET s1 == [s EXCEPT !.state[i] = "recording",
                      !.loopBuffer[i] = Null,
                      !.targetLenSec[i] = lenSec2]
      due == s.now + CeilHalf(lenSec2)
  IN IF s.workletReady
     THEN SetTimeout([s1 EXCEPT !.workletNode[i] = TRUE], "autoStop", i, due)
     ELSE SetTimeout(s1, "fallback", i, due)

\* Looper._stopWorkletRecording, up to the 'dump' request
stopWorkletRecording(s, i) ==
  IF ~ s.workletNode[i] THEN s
  ELSE [s EXCEPT !.state[i] = "playing",
                 !.workletNode[i] = FALSE,
                 !.dumps[i] = @ + 1]

\* targetSamples with Math.floor in place of Math.round
targetSamples_floor(s, i, length) ==
  IF i = 1
  THEN Min(length, RoundHalf(s.targetLenSec[i]))
  ELSE (s.masterLoopDuration * s.divider[i]) \div 2

\* targetSamples as before the "use actual recorded length" fix: track 1 is
\* forced to the requested maximum
targetSamples_padMaster(s, i, length) ==
  IF i = 1
  THEN RoundHalf(s.targetLenSec[i])
  ELSE RoundHalf(s.masterLoopDuration * s.divider[i])

\* targetSamples of the 'dump' handler, for a capture of length frames
targetSamples(s, i, length) ==
  IF i = 1
  THEN Min(length, RoundHalf(s.targetLenSec[i]))
  ELSE RoundHalf(s.masterLoopDuration * s.divider[i])

\* the commit without the "if (this.index===1)" around the Clock update
commitDump_anyTrack(s, i, length) ==
  IF length = 0 THEN s
  ELSE
    LET target == targetSamples(s, i, length)
    IN IF target = 0 THEN s
       ELSE
         LET s1 == [s EXCEPT !.loopBuffer[i] = target,
                             !.loopDuration[i] = target]
             s2 == updateDelayFromTempo(
                     [s1 EXCEPT !.masterLoopDuration = target,
                                !.masterBPM = TempoOf(target),
                                !.masterIsSet = TRUE,
                                !.uiDisabled = [k \in Tracks |-> FALSE]])
         IN startPlayback(s2, i)

\* node.port.onmessage of _stopWorkletRecording: the commit
commitDump(s, i, length) ==
  IF length = 0 THEN s
  ELSE
    LET target == targetSamples(s, i, length)
    IN IF target = 0 THEN s      \* createBuffer(.., 0, ..) throws
       ELSE
         LET s1 == [s EXCEPT !.loopBuffer[i] = target,
                             !.loopDuration[i] = target]
             s2 == IF i = 1
                   THEN updateDelayFromTempo(
                          [s1 EXCEPT !.masterLoopDuration = target,
                                     !.masterBPM = TempoOf(target),
                                     !.masterIsSet = TRUE,
                                     !.uiDisabled = [k \in Tracks |-> FALSE]])
                   ELSE s1
         IN startPlayback(s2, i)

\* startRecording without the "index>=2 && !masterIsSet" gate
startRecording_ungated(s, i) ==
  LET max2 == IF i = 1 THEN 2 * MaxRecSec * SampleRate
              ELSE IF s.masterLoopDuration # Null
                   THEN s.masterLoopDuration * s.divider[i]
                   ELSE 2 * SubDefaultSec * SampleRate
  IN startWorkletRecording(s, i, max2)

\* Looper.startRecording
startRecording(s, i) ==
  IF i >= 2 /\ ~ s.masterIsSet THEN s
  ELSE
    LET max2 == IF i = 1 THEN 2 * MaxRecSec * SampleRate
                ELSE IF s.masterLoopDuration # Null
                     THEN s.masterLoopDuration * s.divider[i]
                     ELSE 2 * SubDefaultSec * SampleRate
    IN startWorkletRecording(s, i, max2)

\* phaseLockedRecord waiting for the elapsed part of the loop, not the rest
phaseLockedRecord_elapsed(s, i) ==
  IF i = 1 \/ ~ s.masterIsSet THEN startRecording(s, i)
  ELSE
    LET elapsed == (s.now - s.loopStartTime[1]) % s.masterLoopDuration
    IN SetTimeout([s EXCEPT !.state[i] = "waiting"], "phaseStart", i, s.now + elapsed)

\* the "elapsed" that phaseLockedRecord computes
masterElapsed(s) == JsMod(s.now - s.loopStartTime[1], s.masterLoopDuration)

\* Looper.phaseLockedRecord; a NaN delay makes setTimeout run at once
phaseLockedRecord(s, i) ==
  IF i = 1 \/ ~ s.masterIsSet THEN startRecording(s, i)
  ELSE
    LET elapsed == masterElapsed(s)
        toNext == IF elapsed = NaN THEN 0 ELSE s.masterLoopDuration - elapsed
    IN SetTimeout([s EXCEPT !.state[i] = "waiting"], "phaseStart", i, s.now + toNext)

\* the callback phaseLockedRecord schedules: _startPhaseLockedRecording
startPhaseLockedRecording(s, i) ==
  startWorkletRecording(s, i, s.masterLoopDuration * s.divider[i])

\* the "elapsed" that armOverdub computes
overdubElapsed(s, i) == JsMod(s.now - s.loopStartTime[i], s.loopDuration[i])

\* Looper.armOverdub; a NaN delay makes setTimeout run at once
armOverdub(s, i) ==
  IF s.state[i] # "playing" THEN s
  ELSE
    LET elapsed == overdubElapsed(s, i)
        delay == IF elapsed = NaN THEN 0 ELSE s.loopDuration[i] - elapsed
    IN SetTimeout([s EXCEPT !.state[i] = "overdub"], "odStart", i, s.now + delay)

\* Looper.startOverdubRecording
startOverdubRecording(s, i) ==
  SetTimeout([s EXCEPT !.overdubStartTime[i] = s.now,
                       !.mediaRecorder[i] = "recording"],
             "odFinish", i, s.now + s.loopDuration[i])

\* Looper.finishOverdub, up to mediaRecorder.stop()
finishOverdub(s, i) ==
  IF s.mediaRecorder[i] = "recording"
  THEN [s EXCEPT !.mediaRecorder[i] = "inactive", !.decodes[i] = @ + 1]
  ELSE [s EXCEPT !.state[i] = "playing"]

\* the decodeAudioData callback of finishOverdub: the merge
mergeOverdub(s, i, newLen) ==
  IF s.loopBuffer[i] = Null THEN s      \* this.loopBuffer.numberOfChannels throws
  ELSE
    LET length == Max(s.loopBuffer[i], newLen)
    IN startPlayback([s EXCEPT !.loopBuffer[i] = length,
                               !.loopDuration[i] = length], i)

\* an abort that only releases the capture once: called again on the ready
\* track it takes the track for a finished take and plays
abortRecording_once(s, i) ==
  IF s.state[i] = "ready" /\ ~ s.workletNode[i]
  THEN [s EXCEPT !.state[i] = "playing"]
  ELSE [s EXCEPT !.workletNode[i] = FALSE,
                 !.state[i] = "ready",
                 !.loopBuffer[i] = Null,
                 !.loopDuration[i] = 0]

\* Looper.abortRecording
abortRecording(s, i) ==
  LET s1 == [s EXCEPT !.workletNode[i] = FALSE]
      s2 == IF s1.mediaRecorder[i] # "null" /\ s1.state[i] = "recording"
            THEN [s1 EXCEPT !.mediaRecorder[i] = "null"]
            ELSE s1
  IN [s2 EXCEPT !.state[i] = "ready",
                !.loopBuffer[i] = Null,
                !.loopDuration[i] = 0]

\* Looper.clearLoop without the master cascade
clearOne(s, i) ==
  [stopSource(s, i) EXCEPT !.loopBuffer[i] = Null,
                           !.loopDuration[i] = 0,
                           !.state[i] = "ready"]

\* the loop "for (let k=2;k<=4;k++) loopers[k].clearLoop()"
RECURSIVE clearFrom(_, _)
clearFrom(s, k) ==
  IF k > NumTracks THEN s ELSE clearFrom(clearOne(s, k), k + 1)

\* clearLoop that resets the clock but leaves the subordinate tracks alone
clearLoop_noCascade(s, i) ==
  IF i = 1
  THEN updateDelayFromTempo(
         [clearOne(s, 1) EXCEPT
            !.masterLoopDuration = Null,
            !.masterBPM = Null,
            !.masterIsSet = FALSE,
            !.uiDisabled = [k \in Tracks |-> k >= 2]])
  ELSE clearOne(s, i)

\* Looper.clearLoop
clearLoop(s, i) ==
  IF i = 1
  THEN updateDelayFromTempo(
         clearFrom([clearOne(s, 1) EXCEPT
                      !.masterLoopDuration = Null,
                      !.masterBPM = Null,
                      !.masterIsSet = FALSE,
                      !.uiDisabled = [k \in Tracks |-> k >= 2]], 2))
  ELSE clearOne(s, i)

\* handleMainBtn that also resumes a stopped track
handleMainBtn_resumes(s, i) ==
  CASE s.state[i] = "ready" -> phaseLockedRecord(s, i)
    [] s.state[i] = "recording" -> stopWorkletRecording(s, i)
    [] s.state[i] = "playing" -> armOverdub(s, i)
    [] s.state[i] = "overdub" -> finishOverdub(s, i)
    [] s.state[i] = "stopped" -> resumePlayback(s, i)
    [] OTHER -> s

\* Looper.handleMainBtn
handleMainBtn(s, i) ==
  CASE s.state[i] = "ready" -> phaseLockedRecord(s, i)
    [] s.state[i] = "recording" -> stopWorkletRecording(s, i)
    [] s.state[i] = "playing" -> armOverdub(s, i)
    [] s.state[i] = "overdub" -> finishOverdub(s, i)
    [] OTHER -> s

\* the stop button's listener
handleStopBtn(s, i) ==
  CASE s.state[i] \in {"playing", "overdub"} -> stopPlayback(s, i)
    [] s.state[i] = "stopped" -> resumePlayback(s, i)
    [] s.state[i] = "recording" -> abortRecording(s, i)
    [] OTHER -> s

\* ---------------------------------------------------------------- After-FX
\* effect types of AFTER_FX_CATALOG that are told apart here: Pitch (no
\* nodes), a filter and the insert delay
FxTypes == {"Pitch", "LowPass", "Delay"}

\* the default of a type's first parameter in AFTER_FX_CATALOG: semitones,
\* cutoff (Hz), timeSec (in ms)
CatalogDefault(type) ==
  CASE type = "Pitch" -> 0
    [] type = "LowPass" -> 12000
    [] type = "Delay" -> 250

\* positions of the slider of that parameter: the default and another one
SliderValues(type) ==
  CASE type = "Pitch" -> {0, 1}
    [] type = "LowPass" -> {12000, 200}
    [] type = "Delay" -> {250, 1}

\* lp.fx.chain.findIndex(e => e.id === id), counted from 1; 0 for -1
IndexOf(chain, id) ==
  IF \E k \in 1..Len(chain) : chain[k].id = id
  THEN CHOOSE k \in 1..Len(chain) :
         /\ chain[k].id = id
         /\ \A m \in 1..(k - 1) : chain[m].id # id
  ELSE 0

\* chain.splice(k, 1)
RemoveAt(chain, k) ==
  [m \in 1..(Len(chain) - 1) |-> IF m < k THEN chain[m] ELSE chain[m + 1]]

\* chain.splice(k, 0, x), on a chain that x was taken out of
InsertAt(chain, k, x) ==
  [m \in 1..(Len(chain) + 1) |->
     IF m < k THEN chain[m] ELSE IF m = k THEN x ELSE chain[m - 1]]

\* if (lp.state==='playing') lp._rebuildChainWiring()
rewireIfPlaying(s, i) ==
  IF s.state[i] = "playing" THEN rebuildChainWiring(s, i) ELSE s

\* addEffectToTrack without the line that copies the track's pitch
addEffectToTrack_catalogPitch(s, i, type) ==
  IF type \notin FxTypes THEN s
  ELSE
    LET eff == [id |-> s.fx[i].nextId, type |-> type, bypass |-> FALSE,
                param |-> CatalogDefault(type)]
    IN rewireIfPlaying([s EXCEPT !.fx[i].nextId = @ + 1,
                                 !.fx[i].chain = Append(@, eff)], i)

\* addEffectToTrack that numbers the new effect by its place in the chain
addEffectToTrack_placeId(s, i, type) ==
  IF type \notin FxTypes THEN s
  ELSE
    LET eff == [id |-> Len(s.fx[i].chain) + 1, type |-> type, bypass |-> FALSE,
                param |-> IF type = "Pitch" THEN s.pitchSemitones[i]
                          ELSE CatalogDefault(type)]
    IN rewireIfPlaying([s EXCEPT !.fx[i].nextId = @ + 1,
                                 !.fx[i].chain = Append(@, eff)], i)

\* addEffectToTrack
addEffectToTrack(s, i, type) ==
  IF type \notin FxTypes THEN s
  ELSE
    LET eff == [id |-> s.fx[i].nextId, type |-> type, bypass |-> FALSE,
                param |-> IF type = "Pitch" THEN s.pitchSemitones[i]
                          ELSE CatalogDefault(type)]
    IN rewireIfPlaying([s EXCEPT !.fx[i].nextId = @ + 1,
                                 !.fx[i].chain = Append(@, eff)], i)

\* moveEffect that carries the effect to the end of the chain on that side
moveEffect_toEnd(s, i, id, up) ==
  LET chain == s.fx[i].chain
      k == IndexOf(chain, id)
      j == IF up THEN 1 ELSE Len(chain)
  IN IF k = 0 \/ j = k THEN s
     ELSE rewireIfPlaying(
            [s EXCEPT !.fx[i].chain = InsertAt(RemoveAt(chain, k), j, chain[k])], i)

\* moveEffect that wraps around at the ends of the chain
moveEffect_wraps(s, i, id, up) ==
  LET chain == s.fx[i].chain
      k == IndexOf(chain, id)
      j == IF up THEN (IF k = 1 THEN Len(chain) ELSE k - 1)
                 ELSE (IF k = Len(chain) THEN 1 ELSE k + 1)
  IN IF k = 0 THEN s
     ELSE rewireIfPlaying(
            [s EXCEPT !.fx[i].chain = InsertAt(RemoveAt(chain, k), j, chain[k])], i)

\* moveEffect; up is TRUE for 'up'
moveEffect(s, i, id, up) ==
  LET chain == s.fx[i].chain
      k == IndexOf(chain, id)
      j == IF up THEN k - 1 ELSE k + 1
  IN IF k = 0 \/ j < 1 \/ j > Len(chain) THEN s
     ELSE rewireIfPlaying(
            [s EXCEPT !.fx[i].chain = InsertAt(RemoveAt(chain, k), j, chain[k])], i)

\* removeEffect without the "if (i<0) return": splice(-1, 1) takes the last
removeEffect_unguarded(s, i, id) ==
  LET chain == s.fx[i].chain
      found == IndexOf(chain, id)
      k == IF found = 0 THEN Len(chain) ELSE found
  IN IF k = 0 THEN s
     ELSE
       LET s1 == [s EXCEPT !.fx[i].chain = RemoveAt(chain, k)]
           s2 == IF chain[k].type = "Pitch"
                 THEN [s1 EXCEPT !.pitchSemitones[i] = 0]
                 ELSE s1
       IN rewireIfPlaying(s2, i)

\* removeEffect
removeEffect(s, i, id) ==
  LET chain == s.fx[i].chain
      k == IndexOf(chain, id)
  IN IF k = 0 THEN s
     ELSE
       LET s1 == [s EXCEPT !.fx[i].chain = RemoveAt(chain, k)]
           s2 == IF chain[k].type = "Pitch"
                 THEN [s1 EXCEPT !.pitchSemitones[i] = 0]
                 ELSE s1
       IN rewireIfPlaying(s2, i)

\* toggleBypass that only ever switches the bypass on
toggleBypass_on(s, i, id) ==
  LET k == IndexOf(s.fx[i].chain, id)
  IN IF k = 0 THEN s
     ELSE rewireIfPlaying([s EXCEPT !.fx[i].chain[k].bypass = TRUE], i)

\* toggleBypass
toggleBypass(s, i, id) ==
  LET k == IndexOf(s.fx[i].chain, id)
  IN IF k = 0 THEN s
     ELSE rewireIfPlaying([s EXCEPT !.fx[i].chain[k].bypass = ~ @], i)

\* the 'input' listener of an effect's first slider (wireFxParams)
setParam(s, i, id, v) ==
  LET chain == s.fx[i].chain
      k == IndexOf(chain, id)
  IN IF k = 0 THEN s
     ELSE
       LET s1 == [s EXCEPT !.fx[i].chain[k].param = v]
       IN IF chain[k].type = "Pitch"
          THEN [s1 EXCEPT !.pitchSemitones[i] = v]
          ELSE s1

\* ---------------------------------------------------------------- merge
\* sample values
Samples == {0, 1}

\* an AudioBuffer with its samples: a sequence of channels of equal length
Buffers ==
  UNION {[1..c -> [1..n -> Samples]] : c \in 1..MaxChannels, n \in 1..MaxBufLen}

\* no merge is being looked at
NoMerge == [old |-> <<>>, new |-> <<>>, out |-> <<>>]

\* buf.getChannelData(ch)[i], or 0 where the code reads null or undefined:
\* (o ? o[i]||0 : 0)
SampleOr0(buf, ch, i) ==
  IF ch <= Len(buf) /\ i <= Len(buf[ch]) THEN buf[ch][i] ELSE 0

\* the merge loop running over the channels of the new buffer only
mergeChannels_newOnly(old, new) ==
  LET length == Max(Len(old[1]), Len(new[1]))
  IN [ch \in 1..Len(new) |->
        [i \in 1..length |-> SampleOr0(old, ch, i) + SampleOr0(new, ch, i)]]

\* the body of the decodeAudioData callback of finishOverdub: out
mergeChannels(old, new) ==
  LET outC == Max(Len(old), Len(new))
      length == Max(Len(old[1]), Len(new[1]))
  IN [ch \in 1..outC |->
        [i \in 1..length |-> SampleOr0(old, ch, i) + SampleOr0(new, ch, i)]]

\* ---------------------------------------------------------------- actions
\* the fields of the Looper objects and the globals as the script builds them,
\* with the dividers dv read from the selectors and the worklet loaded or not
Built(dv, wr) ==
  [now |-> 0,
   state |-> [i \in Tracks |-> "ready"],
   loopBuffer |-> [i \in Tracks |-> Null],
   loopDuration |-> [i \in Tracks |-> 0],
   loopStartTime |-> [i \in Tracks |-> 0],
   sourceNode |-> [i \in Tracks |-> "null"],
   workletNode |-> [i \in Tracks |-> FALSE],
   targetLenSec |-> [i \in Tracks |-> 0],
   mediaRecorder |-> [i \in Tracks |-> "null"],
   overdubStartTime |-> [i \in Tracks |-> 0],
   divider |-> dv,
   uiDisabled |-> [i \in Tracks |-> i >= 2],
   masterLoopDuration |-> Null,
   masterBPM |-> Null,
   masterIsSet |-> FALSE,
   timers |-> {},
   dumps |-> [i \in Tracks |-> 0],
   decodes |-> [i \in Tracks |-> 0],
   workletReady |-> wr,
   fx |-> [i \in Tracks |-> [chain |-> <<>>, nextId |-> 1]],
   pitchSemitones |-> [i \in Tracks |-> 0],
   wiring |-> [i \in Tracks |-> [on |-> FALSE, path |-> <<>>]],
   beforeDelay |-> [mode |-> "note", division |-> "1/8", variant |-> "straight",
                    ms |-> 250, time |-> Frac(0, 1)]]

\* the program is in state s
Holds(s) ==
  /\ now = s.now
  /\ state = s.state
  /\ loopBuffer = s.loopBuffer
  /\ loopDuration = s.loopDuration
  /\ loopStartTime = s.loopStartTime
  /\ sourceNode = s.sourceNode
  /\ workletNode = s.workletNode
  /\ targetLenSec = s.targetLenSec
  /\ mediaRecorder = s.mediaRecorder
  /\ overdubStartTime = s.overdubStartTime
  /\ divider = s.divider
  /\ uiDisabled = s.uiDisabled
  /\ masterLoopDuration = s.masterLoopDuration
  /\ masterBPM = s.masterBPM
  /\ masterIsSet = s.masterIsSet
  /\ timers = s.timers
  /\ dumps = s.dumps
  /\ decodes = s.decodes
  /\ workletReady = s.workletReady
  /\ fx = s.fx
  /\ pitchSemitones = s.pitchSemitones
  /\ wiring = s.wiring
  /\ beforeDelay = s.beforeDelay

\* the transport after the four Looper objects are built
InitTransport ==
  /\ \E dv \in [Tracks -> Dividers], wr \in BOOLEAN :
       /\ dv[1] = 2
       /\ Holds(Built(dv, wr))
  /\ presses = 0

Init ==
  /\ InitTransport
  /\ overdubMerge = NoMerge
  /\ recorder = NewRecorder
  /\ synth = NewSynth

\* audioCtx.currentTime advances; a due callback runs at most MaxLate late
Tick ==
  /\ now < MaxTime
  /\ \A t \in timers : now < t.due + MaxLate
  /\ Callback([Cur EXCEPT !.now = @ + 1])

\* the loader at the top of the script: audioWorklet.addModule resolves
WorkletLoaded ==
  /\ ~ workletReady
  /\ Callback([Cur EXCEPT !.workletReady = TRUE])

\* the main button of track i (after ensureMic)
MainBtn(i) ==
  /\ i \in Tracks
  /\ Press(handleMainBtn(Cur, i))

\* the stop button of track i
StopBtn(i) ==
  /\ i \in Tracks
  /\ Press(handleStopBtn(Cur, i))

\* the clear button of track i
ClearBtn(i) ==
  /\ i \in Tracks
  /\ Press(clearLoop(Cur, i))

\* the 'change' listener of the divider selector of a subordinate track
SetDivider(i, d) ==
  /\ divider[i] # d
  /\ Press([Cur EXCEPT !.divider[i] = d])

\* setTimeout(()=> this._stopWorkletRecording(), lenSec * 1000)
AutoStopTimer(t) ==
  /\ Due(t)
  /\ t.kind = "autoStop"
  /\ Callback(stopWorkletRecording(Fired(Cur, t), t.track))

\* the visual-fallback callback when the worklet node could not be created
FallbackTimer(t) ==
  /\ Due(t)
  /\ t.kind = "fallback"
  /\ Callback([Fired(Cur, t) EXCEPT !.state[t.track] = "playing"])

PhaseStartTimer(t) ==
  /\ Due(t)
  /\ t.kind = "phaseStart"
  /\ Callback(startPhaseLockedRecording(Fired(Cur, t), t.track))

OverdubStartTimer(t) ==
  /\ Due(t)
  /\ t.kind = "odStart"
  /\ Callback(startOverdubRecording(Fired(Cur, t), t.track))

OverdubFinishTimer(t) ==
  /\ Due(t)
  /\ t.kind = "odFinish"
  /\ Callback(finishOverdub(Fired(Cur, t), t.track))

\* the worklet's 'dump' reply arrives, reporting length frames
DumpMsg(i, length) ==
  /\ dumps[i] > 0
  /\ Callback(commitDump([Cur EXCEPT !.dumps[i] = @ - 1], i, length))

\* the overdub was decoded into a buffer of newLen frames
DecodeDone(i, newLen) ==
  /\ decodes[i] > 0
  /\ Callback(mergeOverdub([Cur EXCEPT !.decodes[i] = @ - 1], i, newLen))

\* the overdub held no decodable audio: the success callback never runs
DecodeFail(i) ==
  /\ decodes[i] > 0
  /\ Callback([Cur EXCEPT !.decodes[i] = @ - 1])

Next ==
  \/ Tick
  \/ WorkletLoaded
  \/ \E i \in Tracks : MainBtn(i)
  \/ \E i \in Tracks : StopBtn(i)
  \/ \E i \in Tracks : ClearBtn(i)
  \/ \E i \in Subs, d \in Dividers : SetDivider(i, d)
  \/ \E t \in timers : AutoStopTimer(t)
  \/ \E t \in timers : FallbackTimer(t)
  \/ \E t \in timers : PhaseStartTimer(t)
  \/ \E t \in timers : OverdubStartTimer(t)
  \/ \E t \in timers : OverdubFinishTimer(t)
  \/ \E i \in Tracks, length \in FrameCounts : DumpMsg(i, length)
  \/ \E i \in Tracks, newLen \in FrameCounts \ {0} : DecodeDone(i, newLen)
  \/ \E i \in Tracks : DecodeFail(i)

Spec == Init /\ [][Next]_vars

\* ------------------------------------- the After-FX menu on a playing loop
\* the ids of the effects listed in track i's FX menu
MenuIds(i) == {fx[i].chain[k].id : k \in 1..Len(fx[i].chain)}

\* track 1 recorded a loop of len frames at time 0 and plays it; dv are the
\* dividers selected
PlayingLoopWith(dv, len) ==
  LET built == Built(dv, TRUE)
      stopped == stopWorkletRecording(startRecording(built, 1), 1)
  IN commitDump([stopped EXCEPT !.dumps[1] = @ - 1], 1, len)

PlayingLoop(len) == PlayingLoopWith([i \in Tracks |-> 2], len)

InitFx ==
  /\ Holds(PlayingLoop(2))
  /\ presses = 0
  /\ overdubMerge = NoMerge
  /\ recorder = NewRecorder
  /\ synth = NewSynth

\* an "+ effect" button of track i's FX menu
AddEffect(i, type) ==
  /\ Len(fx[i].chain) < MaxChain
  /\ Press(addEffectToTrack(Cur, i, type))

\* the up or down button of an effect
MoveEffect(i, id, up) ==
  /\ id \in MenuIds(i)
  /\ Press(moveEffect(Cur, i, id, up))

\* the remove button of an effect
RemoveEffect(i, id) ==
  /\ id \in MenuIds(i)
  /\ Press(removeEffect(Cur, i, id))

\* the bypass button of an effect
ToggleBypass(i, id) ==
  /\ id \in MenuIds(i)
  /\ Press(toggleBypass(Cur, i, id))

\* a slider of the effect's parameter popup is moved to v
SetParam(i, id, v) ==
  /\ id \in MenuIds(i)
  /\ fx[i].chain[IndexOf(fx[i].chain, id)].param # v
  /\ Press(setParam(Cur, i, id, v))

NextFx ==
  \/ \E i \in Tracks, type \in FxTypes : AddEffect(i, type)
  \/ \E i \in Tracks : \E id \in MenuIds(i), up \in BOOLEAN : MoveEffect(i, id, up)
  \/ \E i \in Tracks : \E id \in MenuIds(i) : RemoveEffect(i, id)
  \/ \E i \in Tracks : \E id \in MenuIds(i) : ToggleBypass(i, id)
  \/ \E i \in Tracks : \E id \in MenuIds(i) :
       \E v \in SliderValues(fx[i].chain[IndexOf(fx[i].chain, id)].type) :
         SetParam(i, id, v)
  \/ \E i \in Tracks : MainBtn(i)
  \/ \E i \in Tracks : StopBtn(i)

SpecFx == InitFx /\ [][NextFx]_vars

\* ------------------------------------------ stop and resume of two loops
\* the clock runs this far while loops are stopped and resumed
ResumeHorizon == MaxTime + MaxRecSec

\* track 1 plays a loop of len frames recorded at time 0; track 2, with
\* divider d, was asked to record at time 0, captured from the master's next
\* boundary, was stopped by hand at once, committed its loop and was stopped
SubLoopStopped(len, d) ==
  LET dv == [i \in Tracks |-> IF i = 2 THEN d ELSE 2]
      asked == phaseLockedRecord(PlayingLoopWith(dv, len), 2)
      t == CHOOSE u \in asked.timers : u.kind = "phaseStart"
      started == startPhaseLockedRecording(Fired([asked EXCEPT !.now = t.due], t), 2)
      stopped == stopWorkletRecording(started, 2)
      played == commitDump([stopped EXCEPT !.dumps[2] = @ - 1], 2, 1)
  IN stopPlayback(played, 2)

InitResume ==
  /\ \E len \in {2, MaxSamples}, d \in Dividers : Holds(SubLoopStopped(len, d))
  /\ presses = 0
  /\ overdubMerge = NoMerge
  /\ recorder = NewRecorder
  /\ synth = NewSynth

\* audioCtx.currentTime advances
TickResume ==
  /\ now < ResumeHorizon
  /\ \A t \in timers : now < t.due + MaxLate
  /\ Callback([Cur EXCEPT !.now = @ + 1])

NextResume ==
  \/ TickResume
  \/ \E i \in Tracks : StopBtn(i)
  \/ \E t \in timers : AutoStopTimer(t)

SpecResume == InitResume /\ [][NextResume]_vars

\* ------------------------------------------- the overdub merge on its own
\* the transport at rest, with a loop and a decoded overdub of any shape
InitMerge ==
  /\ InitTransport
  /\ divider = [i \in Tracks |-> 2]
  /\ workletReady
  /\ overdubMerge \in [old : Buffers, new : Buffers, out : {<<>>}]
  /\ recorder = NewRecorder
  /\ synth = NewSynth

\* audioCtx.decodeAudioData(arr, newBuf => { ... this.loopBuffer = out; ... })
MergeDecoded ==
  /\ overdubMerge.out = <<>>
  /\ overdubMerge' =
       [overdubMerge EXCEPT !.out = mergeChannels(overdubMerge.old, overdubMerge.new)]
  /\ UNCHANGED <<now, state, loopBuffer, loopDuration, loopStartTime,
                 sourceNode, workletNode, targetLenSec, mediaRecorder,
                 overdubStartTime, divider, uiDisabled, masterLoopDuration,
                 masterBPM, masterIsSet, timers, dumps, decodes, workletReady,
                 fx, pitchSemitones, wiring, beforeDelay, presses,
                 recorder, synth>>

NextMerge == MergeDecoded

SpecMerge == InitMerge /\ [][NextMerge]_vars

\* ------------------------------------------- the Before-FX delay popup
DelayMsValues == {1, 250, 2000}

\* 'change' of #dlMode, with syncUI
setDelayMode(s, m) ==
  LET s1 == [s EXCEPT !.beforeDelay.mode = m]
  IN IF m = "note" THEN updateDelayFromTempo(s1)
     ELSE [s1 EXCEPT !.beforeDelay.time = delayFromMs(s1)]

\* 'change' of #dlDiv
setDelayDivision(s, d) ==
  updateDelayFromTempo([s EXCEPT !.beforeDelay.division = d])

\* 'change' of #dlVar
setDelayVariant(s, v) ==
  updateDelayFromTempo([s EXCEPT !.beforeDelay.variant = v])

\* 'input' of #dlMs
setDelayMs(s, ms) ==
  LET s1 == [s EXCEPT !.beforeDelay.ms = ms]
  IN IF s1.beforeDelay.mode = "ms"
     THEN [s1 EXCEPT !.beforeDelay.time = delayFromMs(s1)]
     ELSE s1

SetDelayMode(m) ==
  /\ m # beforeDelay.mode
  /\ Press(setDelayMode(Cur, m))

SetDelayDivision(d) ==
  /\ d # beforeDelay.division
  /\ Press(setDelayDivision(Cur, d))

SetDelayVariant(v) ==
  /\ v # beforeDelay.variant
  /\ Press(setDelayVariant(Cur, v))

SetDelayMs(ms) ==
  /\ ms # beforeDelay.ms
  /\ Press(setDelayMs(Cur, ms))

\* the master track and the delay popup, once the microphone graph is built
\* and the recorder worklet is loaded
InitDelay ==
  /\ Holds(Built([i \in Tracks |-> 2], TRUE))
  /\ presses = 0
  /\ overdubMerge = NoMerge
  /\ recorder = NewRecorder
  /\ synth = NewSynth

NextDelay ==
  \/ Tick
  \/ MainBtn(1)
  \/ ClearBtn(1)
  \/ \E t \in timers : AutoStopTimer(t)
  \/ \E length \in FrameCounts : DumpMsg(1, length)
  \/ \E m \in DelayModes : SetDelayMode(m)
  \/ \E d \in DelayDivisions : SetDelayDivision(d)
  \/ \E v \in DelayVariants : SetDelayVariant(v)
  \/ \E ms \in DelayMsValues : SetDelayMs(ms)

SpecDelay == InitDelay /\ [][NextDelay]_vars

\* ------------------------------------------- the recorder worklet
\* every variable of the looper page; the worklet script touches none of them
looperVars ==
  <<now, state, loopBuffer, loopDuration, loopStartTime, sourceNode,
    workletNode, targetLenSec, mediaRecorder, overdubStartTime, divider,
    uiDisabled, masterLoopDuration, masterBPM, masterIsSet, timers, dumps,
    decodes, workletReady, fx, pitchSemitones, wiring, beforeDelay, presses,
    overdubMerge>>

\* sample f of channel ch of the k-th render quantum of the node's input; the
\* signal is named by where it came from, 0 is the zero of a new Float32Array
Sample(k, ch, f) == 100 * k + 10 * ch + f

\* inputs[0] of the k-th call of process when the input bus carries n channels
InputBlock(k, n) ==
  [ch \in 1..n |-> [f \in 1..RenderQuantum |-> Sample(k, ch, f)]]

\* process(inputs): if (input && input.length) this._buffers.push(copy)
process(r, input) ==
  IF Len(input) > 0 THEN [r EXCEPT !.buffers = Append(@, input)] ELSE r

\* Float32Array.prototype.set(src, offset)
set(target, src, offset) ==
  [p \in 1..Len(target) |->
     IF p > offset /\ p <= offset + Len(src) THEN src[p - offset] ELSE target[p]]

\* for (const block of this._buffers) { chans[ch].set(block[ch], offset); ... }
RECURSIVE copyBlocks(_, _, _, _)
copyBlocks(chans, buffers, b, offset) ==
  IF b > Len(buffers) THEN chans
  ELSE copyBlocks([ch \in 1..Len(chans) |-> set(chans[ch], buffers[b][ch], offset)],
                  buffers, b + 1, offset + Len(buffers[b][1]))

\* block[ch] is undefined for a block with fewer channels than the first one:
\* chans[ch].set(undefined, offset) throws a TypeError
setThrows(buffers) ==
  \E b \in 1..Len(buffers) : Len(buffers[b]) < Len(buffers[1])

\* if (e.data?.cmd === 'reset') this._buffers = []
reset(r) == [r EXCEPT !.buffers = <<>>]

\* if (e.data?.cmd === 'dump') { ... }; a throw leaves the handler at once
dump(r) ==
  LET numBlocks == Len(r.buffers)
      numCh == Len(r.buffers[1])
      frames == numBlocks * Len(r.buffers[1][1])
      chans == [ch \in 1..numCh |-> [p \in 1..frames |-> 0]]
  IN IF numBlocks = 0
     THEN [r EXCEPT !.posted = [cmd |-> "dump", channels |-> <<>>, length |-> 0],
                    !.buffers = <<>>]
     ELSE IF setThrows(r.buffers) THEN r
     ELSE [r EXCEPT !.posted = [cmd |-> "dump",
                                channels |-> copyBlocks(chans, r.buffers, 1, 0),
                                length |-> frames],
                    !.buffers = <<>>]

\* this.port.onmessage
onmessage(r, cmd) ==
  IF cmd = "reset" THEN reset(r) ELSE IF cmd = "dump" THEN dump(r) ELSE r

RecorderCommands == {"reset", "dump"}

\* the audio thread renders one quantum; the input bus carries n channels
Process(n) ==
  /\ recorder.received < MaxBlocks
  /\ recorder' = [process(recorder, InputBlock(recorder.received + 1, n))
                    EXCEPT !.received = @ + 1]
  /\ UNCHANGED <<looperVars, synth>>

\* a message of the main thread arrives on the port
PortMessage(cmd) ==
  /\ recorder' = onmessage(recorder, cmd)
  /\ UNCHANGED <<looperVars, synth>>

InitRecorder ==
  /\ Holds(Built([i \in Tracks |-> 2], TRUE))
  /\ presses = 0
  /\ overdubMerge = NoMerge
  /\ recorder = NewRecorder
  /\ synth = NewSynth

NextRecorder ==
  \/ \E n \in 0..MaxChannels : Process(n)
  \/ \E cmd \in RecorderCommands : PortMessage(cmd)

SpecRecorder == InitRecorder /\ [][NextRecorder]_vars

\* ------------------------------------------- the synth keyboard
\* synth.activeVoices is the Map as its set of entries [midi, voice];
\* synth.voices counts the Voice objects built, a voice is its number;
\* synth.sounding are the voices whose oscillators run, synth.releasing
\* those with a pending setTimeout(() => this.stopNow(), ...)
Keys == START_MIDI..(START_MIDI + NumKeys - 1)

\* Map.prototype.has / get / delete / set
MapHas(m, k) == \E e \in m : e.midi = k
MapGet(m, k) == (CHOOSE e \in m : e.midi = k).voice
MapDelete(m, k) == {e \in m : e.midi # k}
MapSet(m, k, v) == MapDelete(m, k) \cup {[midi |-> k, voice |-> v]}

\* Voice.stopNow
stopNow(s, v) == [s EXCEPT !.sounding = @ \ {v}]

\* Voice.gateOff: the release ramp, then stopNow from a timer
gateOff(s, v) == [s EXCEPT !.releasing = @ \cup {v}]

noteOn(s, midi) ==
  LET old == IF MapHas(s.activeVoices, midi)
             THEN [stopNow(s, MapGet(s.activeVoices, midi))
                     EXCEPT !.activeVoices = MapDelete(@, midi)]
             ELSE s
      v == old.voices + 1
  IN [old EXCEPT !.voices = v, !.sounding = @ \cup {v},
                 !.activeVoices = MapSet(@, midi, v)]

noteOff(s, midi) ==
  IF ~ MapHas(s.activeVoices, midi) THEN s
  ELSE [gateOff(s, MapGet(s.activeVoices, midi))
          EXCEPT !.activeVoices = MapDelete(@, midi)]

allNotesOff(s) ==
  [s EXCEPT !.sounding = @ \ {e.voice : e \in s.activeVoices},
            !.activeVoices = {}]

\* pianoDiv pointerdown on the key midi
pointerdown(s, midi) ==
  IF ~ s.ac THEN s
  ELSE [noteOn(s, midi) EXCEPT !.heldKeys = @ \cup {midi}]

\* a pointerup that only forgets the key
pointerup_held(s, midi) ==
  [s EXCEPT !.heldKeys = @ \ {midi}]

\* pianoDiv pointerup on the key midi
pointerup(s, midi) ==
  LET t == [s EXCEPT !.heldKeys = @ \ {midi}]
  IN IF ~ t.sustain THEN noteOff(t, midi) ELSE t

\* document pointercancel
pointercancel(s) == IF ~ s.sustain THEN allNotesOff(s) ELSE s

\* for (const m of [...activeVoices.keys()]) if (!heldKeys.has(m)) noteOff(m)
RECURSIVE releaseUnheld(_, _)
releaseUnheld(s, ms) ==
  IF ms = {} THEN s
  ELSE LET m == CHOOSE x \in ms : TRUE
       IN releaseUnheld(IF m \notin s.heldKeys THEN noteOff(s, m) ELSE s,
                        ms \ {m})

\* holdEl change
holdChange(s, checked) ==
  LET t == [s EXCEPT !.sustain = checked]
  IN IF ~ t.sustain
     THEN releaseUnheld(t, {e.midi : e \in t.activeVoices})
     ELSE t

SynthStep(s) ==
  /\ synth' = s
  /\ UNCHANGED <<looperVars, recorder>>

\* enableEl click: if (!ac) ac = new AudioContext()
Enable ==
  /\ ~ synth.ac
  /\ SynthStep([synth EXCEPT !.ac = TRUE])

PointerDown(midi) ==
  /\ synth.voices < MaxVoices
  /\ SynthStep(pointerdown(synth, midi))

PointerUp(midi) == SynthStep(pointerup(synth, midi))

PointerCancel == SynthStep(pointercancel(synth))

\* the hold checkbox is ticked or unticked
HoldChange == SynthStep(holdChange(synth, ~ synth.sustain))

Panic == SynthStep(allNotesOff(synth))

\* the timer of Voice.gateOff fires
VoiceTimer(v) ==
  /\ v \in synth.releasing
  /\ SynthStep([stopNow(synth, v) EXCEPT !.releasing = @ \ {v}])

InitSynth ==
  /\ Holds(Built([i \in Tracks |-> 2], TRUE))
  /\ presses = 0
  /\ overdubMerge = NoMerge
  /\ recorder = NewRecorder
  /\ synth = NewSynth

NextSynth ==
  \/ Enable
  \/ \E midi \in Keys : PointerDown(midi)
  \/ \E midi \in Keys : PointerUp(midi)
  \/ PointerCancel
  \/ HoldChange
  \/ Panic
  \/ \E v \in 1..MaxVoices : VoiceTimer(v)

SpecSynth == InitSynth /\ [][NextSynth]_vars

\* ---------------------------------------------------------------- claims
HasBuffer(i) == loopBuffer[i] # Null

\* C1: in every reachable state of every track, a track that is playing, in
\* overdub or stopped has a loop buffer, and a track that is ready, waiting
\* or recording has none.
C1_BufferMatchesState ==
  \A i \in Tracks :
    /\ state[i] \in {"playing", "overdub", "stopped"} => HasBuffer(i)
    /\ state[i] \in {"ready", "waiting", "recording"} => ~ HasBuffer(i)

\* loopDuration of track i is masterLoopDuration x divider within one sample
RatioHolds(i) ==
  /\ 2 * loopDuration[i] - masterLoopDuration * divider[i] <= 2
  /\ masterLoopDuration * divider[i] - 2 * loopDuration[i] <= 2

\* C2: a subordinate track's committed loop keeps the duration
\* masterLoopDuration x divider (within one sample period) across an overdub
\* merge: the merge never leaves it at a raw capture length.
C2_RatioKeptByOverdub ==
  [][\A i \in Subs, newLen \in FrameCounts \ {0} :
       (DecodeDone(i, newLen) /\ HasBuffer(i) /\ masterIsSet /\ RatioHolds(i))
         => RatioHolds(i)']_vars

\* C3: clearing track 1 resets the clock (no master duration, no tempo,
\* masterIsSet false) and leaves every subordinate track ready, without a
\* buffer and with loopDuration 0, whatever state it was in.
C3_MasterClearCascades ==
  [][ClearBtn(1) =>
       /\ masterLoopDuration' = Null /\ masterBPM' = Null /\ ~ masterIsSet'
       /\ \A k \in Subs : /\ loopBuffer'[k] = Null
                          /\ loopDuration'[k] = 0
                          /\ state'[k] = "ready"]_vars

\* track 1 was cleared after it had played, while a subordinate track was
\* capturing; the subordinate is ready again
C3_Witness ==
  /\ ~ masterIsSet /\ sourceNode[1] = "stopped" /\ state[1] = "ready"
  /\ \E k \in Subs : workletNode[k] /\ state[k] = "ready" /\ ~ HasBuffer(k)

\* C4: masterBPM is null exactly when masterLoopDuration is null, and
\* otherwise it is 240 / masterLoopDuration (in seconds) rounded to the
\* nearest integer, halves rounded up.
C4_TempoDerived ==
  /\ (masterLoopDuration = Null) <=> (masterBPM = Null)
  /\ masterLoopDuration # Null =>
       /\ (2 * masterBPM - 1) * masterLoopDuration <= 480 * SampleRate
       /\ 480 * SampleRate < (2 * masterBPM + 1) * masterLoopDuration

\* a master loop of 4 seconds gives 60 beats per minute
C4_Witness ==
  /\ masterIsSet
  /\ masterLoopDuration = 4 * SampleRate
  /\ masterBPM = 60

\* the callback of track i that starts its phase-locked capture ran
PhaseStartRan(i) ==
  \E t \in timers \ timers' : t.kind = "phaseStart" /\ t.track = i /\ t.due <= now

\* C5: a start request on a ready subordinate track while the master loop is
\* set puts the track in waiting and schedules the capture start
\* masterLoopDuration - elapsed later, elapsed = (now - master.loopStartTime)
\* mod masterLoopDuration, which is a master loop boundary; the track enters
\* recording only when that callback runs, never before the boundary.
C5_PhaseLockedStart ==
  [][\A i \in Subs :
       /\ (MainBtn(i) /\ state[i] = "ready" /\ masterIsSet) =>
            /\ state'[i] = "waiting"
            /\ \E t \in timers' \ timers :
                 /\ t.kind = "phaseStart" /\ t.track = i
                 /\ t.due = now + masterLoopDuration
                              - ((now - loopStartTime[1]) % masterLoopDuration)
                 /\ (t.due - loopStartTime[1]) % masterLoopDuration = 0
                 /\ t.due > now
       /\ (state[i] # "recording" /\ state'[i] = "recording") => PhaseStartRan(i)
    ]_vars

\* a subordinate track waits for a boundary that the request did not fall on
C5_Witness ==
  \E i \in Subs :
    /\ state[i] = "waiting" /\ masterIsSet
    /\ (now - loopStartTime[1]) % masterLoopDuration # 0
    /\ \E t \in timers : t.kind = "phaseStart" /\ t.track = i /\ t.due > now

\* C6: when the auto-stop of a subordinate's phase-locked recording fires,
\* the capture length it was scheduled with (targetLenSec) is the
\* masterLoopDuration x divider that the commit it triggers will use.
C6_AutoStopMatchesCommit ==
  [][\A t \in timers :
       (AutoStopTimer(t) /\ t.track \in Subs /\ state[t.track] = "recording"
          /\ workletNode[t.track] /\ masterIsSet)
         => targetLenSec[t.track] = masterLoopDuration * divider[t.track]]_vars

\* n is x2/2 rounded to the nearest integer, halves rounded up
IsRounded(n, x2) == 2 * n - 1 <= x2 /\ x2 < 2 * n + 1

\* C7: when the dump of a subordinate track's capture arrives with more than
\* zero frames (and the master loop is set), the track commits a buffer of
\* exactly round(masterLoopDuration x sampleRate x divider) frames, whatever
\* the captured frame count, and plays it.
C7_SubCommitLength ==
  [][\A i \in Subs, length \in FrameCounts \ {0} :
       (DumpMsg(i, length) /\ masterIsSet) =>
          /\ IsRounded(loopBuffer'[i], masterLoopDuration * divider[i])
          /\ loopDuration'[i] = loopBuffer'[i]
          /\ state'[i] = "playing"]_vars

\* a subordinate loop of a length that no capture reports: it was cut or padded
C7_Witness ==
  \E i \in Subs :
    /\ state[i] = "playing" /\ HasBuffer(i) /\ masterIsSet
    /\ loopBuffer[i] \notin FrameCounts
    /\ IsRounded(loopBuffer[i], masterLoopDuration * divider[i])

\* C8: when the dump of track 1's capture arrives with more than zero
\* frames, the committed length is the captured frame count, capped at the
\* requested maximum and never padded up to it, and masterLoopDuration is the
\* duration of that buffer.
C8_MasterCommitLength ==
  [][\A length \in FrameCounts \ {0} :
       DumpMsg(1, length) =>
          /\ loopBuffer'[1] = Min(length, MaxSamples)
          /\ loopDuration'[1] = loopBuffer'[1]
          /\ masterLoopDuration' = loopDuration'[1]]_vars

\* a master loop shorter than the requested maximum
C8_Witness ==
  /\ masterIsSet /\ state[1] = "playing"
  /\ loopBuffer[1] = masterLoopDuration
  /\ masterLoopDuration < MaxSamples

\* C9: while masterIsSet is false no subordinate track is recording and no
\* capture is running for it.
C9_SubsGated ==
  \A i \in Subs : ~ masterIsSet => (state[i] # "recording" /\ ~ workletNode[i])

\* C10 as stated: a start request on a ready subordinate track while the
\* master has no loop duration puts the track in waiting.
C10_WaitsWithoutMaster ==
  [][\A i \in Subs :
       (MainBtn(i) /\ state[i] = "ready" /\ ~ masterIsSet)
         => state'[i] = "waiting"]_vars

\* C10 amended: a start request on a ready subordinate track while the master
\* has no loop duration is ignored (the track stays ready, nothing is
\* scheduled and no capture starts); a track enters waiting only from ready
\* while the master loop is set, and a subordinate enters recording only when
\* its scheduled phase-lock callback runs.
C10_IgnoredWithoutMaster ==
  [][\A i \in Subs :
       /\ (MainBtn(i) /\ state[i] = "ready" /\ ~ masterIsSet) =>
            /\ state'[i] = "ready"
            /\ timers' = timers
            /\ workletNode' = workletNode
            /\ loopBuffer' = loopBuffer
       /\ (state[i] # "waiting" /\ state'[i] = "waiting") =>
            (MainBtn(i) /\ state[i] = "ready" /\ masterIsSet)
       /\ (state[i] # "recording" /\ state'[i] = "recording") => PhaseStartRan(i)
    ]_vars

\* a gesture was handled and left everything as constructed: the start
\* request on a subordinate track before the master loop exists
C10_Witness ==
  /\ presses = 1 /\ ~ masterIsSet /\ timers = {}
  /\ \A i \in Tracks : state[i] = "ready" /\ ~ workletNode[i] /\ ~ HasBuffer(i)

\* C11: when the dump of an ended recording arrives with more than zero
\* frames the track commits a buffer, sets loopStartTime and plays it from a
\* live source; when it arrives with zero frames the track returns to ready
\* and no buffer is created.
C11_CommitOrReady ==
  [][\A i \in Tracks, length \in FrameCounts :
       DumpMsg(i, length) =>
         IF length > 0
         THEN /\ loopBuffer'[i] # Null
              /\ loopStartTime'[i] <= now
              /\ state'[i] = "playing"
              /\ sourceNode'[i] = "live"
         ELSE /\ state'[i] = "ready"
              /\ loopBuffer'[i] = Null]_vars

\* C12: aborting a recording track leaves it ready with no buffer, loopDuration
\* 0 and the capture node released, and the auto-stop or fallback callback that
\* the aborted recording scheduled does not change the track's state or buffer
\* when it runs afterwards.
C12_AbortIsFinal ==
  [][\A i \in Tracks :
       /\ (StopBtn(i) /\ state[i] = "recording") =>
            /\ state'[i] = "ready"
            /\ loopBuffer'[i] = Null
            /\ loopDuration'[i] = 0
            /\ ~ workletNode'[i]
       /\ \A t \in timers :
            (/\ t.track = i
             /\ AutoStopTimer(t) \/ FallbackTimer(t)
             /\ state[i] = "ready"
             /\ ~ workletNode[i])
              => (state'[i] = "ready" /\ loopBuffer'[i] = loopBuffer[i])]_vars

\* C13: once a waiting track has been cleared (it is ready again) or an armed
\* overdub has been stopped or cleared (the track is stopped or ready), the
\* deferred callback that was pending for it starts no capture and leaves the
\* track's state alone.
C13_CancelledStartIsDropped ==
  [][\A t \in timers :
       /\ (PhaseStartTimer(t) /\ state[t.track] = "ready") =>
            /\ state'[t.track] = state[t.track]
            /\ workletNode'[t.track] = workletNode[t.track]
       /\ (OverdubStartTimer(t) /\ state[t.track] \in {"stopped", "ready"}) =>
            /\ state'[t.track] = state[t.track]
            /\ mediaRecorder'[t.track] = mediaRecorder[t.track]]_vars

\* C14: clearLoop leaves the track ready with no buffer and loopDuration 0
\* from any state, and no timer callback or recorder message (a step that is
\* not a user gesture) takes a ready track out of ready or gives it a buffer.
C14_ClearStaysReady ==
  [][\A i \in Tracks :
       /\ ClearBtn(i) =>
            /\ state'[i] = "ready"
            /\ loopBuffer'[i] = Null
            /\ loopDuration'[i] = 0
       /\ (presses' = presses /\ state[i] = "ready" /\ loopBuffer[i] = Null) =>
            /\ state'[i] = "ready"
            /\ loopBuffer'[i] = Null]_vars

\* C15: arming an overdub on a playing track that holds a loop schedules the
\* capture start at now + (loopDuration - ((now - loopStartTime) mod
\* loopDuration)), the track's next loop boundary and later than now; and the
\* capture of a track in overdub that is handed to the merge was stopped
\* exactly one loopDuration after it had started.
C15_OverdubSpansOneLoop ==
  [][\A i \in Tracks :
       /\ (MainBtn(i) /\ state[i] = "playing" /\ HasBuffer(i)) =>
            /\ state'[i] = "overdub"
            /\ \E t \in timers' \ timers :
                 /\ t.kind = "odStart" /\ t.track = i
                 /\ t.due = now + loopDuration[i]
                              - ((now - loopStartTime[i]) % loopDuration[i])
                 /\ (t.due - loopStartTime[i]) % loopDuration[i] = 0
                 /\ t.due > now
       /\ (/\ state[i] = "overdub" /\ HasBuffer(i)
           /\ mediaRecorder[i] = "recording" /\ mediaRecorder'[i] = "inactive") =>
            now - overdubStartTime[i] = loopDuration[i]]_vars

\* C16: an overdub merge yields a buffer with max(old channels, new channels)
\* channels in which every sample is old[ch][i] + new[ch][i], a missing
\* channel or sample counting as 0; a mono overdub merged into a stereo loop
\* leaves the loop's second channel as it was.
C16_MergeSumsChannels ==
  LET old == overdubMerge.old
      new == overdubMerge.new
      out == overdubMerge.out
  IN out # <<>> =>
       /\ Len(out) = Max(Len(old), Len(new))
       /\ \A ch \in 1..Len(out) :
            /\ Len(out[ch]) = Max(Len(old[1]), Len(new[1]))
            /\ \A i \in 1..Len(out[ch]) :
                 out[ch][i] =
                   (IF ch <= Len(old) /\ i <= Len(old[ch]) THEN old[ch][i] ELSE 0)
                   + (IF ch <= Len(new) /\ i <= Len(new[ch]) THEN new[ch][i] ELSE 0)
       /\ (Len(old) = 2 /\ Len(new) = 1) =>
            \A i \in 1..Len(old[2]) : out[2][i] = old[2][i]

\* a mono overdub, longer than the loop, was merged into a stereo loop whose
\* second channel is not silent
C16_Witness ==
  /\ overdubMerge.out # <<>>
  /\ Len(overdubMerge.old) = 2 /\ Len(overdubMerge.new) = 1
  /\ Len(overdubMerge.new[1]) > Len(overdubMerge.old[1])
  /\ overdubMerge.old[2][1] = 1
  /\ overdubMerge.out[2][1] = 1

\* the position of track i in its loop: (now - loopStartTime) mod loopDuration
Phase(i) == (now - loopStartTime[i]) % loopDuration[i]

\* C17: committing an overdub (whose take is not longer than the loop) leaves
\* the track's loop phase (now - loopStartTime) mod loopDuration unchanged,
\* for track 1 as well as for subordinate tracks.
C17_OverdubKeepsPhase ==
  [][\A i \in Tracks, newLen \in FrameCounts \ {0} :
       (/\ DecodeDone(i, newLen)
        /\ state[i] = "overdub" /\ HasBuffer(i)
        /\ newLen <= loopBuffer[i])
         => Phase(i)' = Phase(i)]_vars

\* C18: the stop button on a playing or overdub track sets the state to
\* stopped and takes the playback source off the signal path, and leaves
\* loopBuffer, loopDuration and the effect chain (order, ids, parameters,
\* bypass flags) as they were.
C18_StopKeepsLoopAndChain ==
  [][\A i \in Tracks :
       (StopBtn(i) /\ state[i] \in {"playing", "overdub"}) =>
         /\ state'[i] = "stopped"
         /\ sourceNode'[i] # "live"
         /\ ~ wiring'[i].on
         /\ loopBuffer'[i] = loopBuffer[i]
         /\ loopDuration'[i] = loopDuration[i]
         /\ fx'[i] = fx[i]
         /\ pitchSemitones'[i] = pitchSemitones[i]]_vars

\* a track with an edited, partly bypassed chain was stopped while its
\* overdub was armed
C18_Witness ==
  /\ state[1] = "stopped" /\ HasBuffer(1) /\ sourceNode[1] = "stopped"
  /\ \E t \in timers : t.kind = "odStart" /\ t.track = 1
  /\ Len(fx[1].chain) = 2
  /\ fx[1].chain[1].bypass /\ fx[1].chain[2].type = "Delay"

\* the loop boundaries of track i and of track 1 coincide: their loop start
\* times differ by a multiple of the shorter of the two loop durations
Aligned(i) ==
  (loopStartTime[i] - loopStartTime[1])
     % Min(loopDuration[i], loopDuration[1]) = 0

\* C19: resuming stopped track 1 restarts it at phase 0 (loopStartTime = now)
\* and leaves every playing subordinate aligned with it; resuming a stopped
\* subordinate while track 1 plays leaves the subordinate aligned with track
\* 1, for every divider and every master phase.
C19_ResumeKeepsAlignment ==
  [][\A i \in Tracks :
       (StopBtn(i) /\ state[i] = "stopped" /\ HasBuffer(i) /\ HasBuffer(1)) =>
         IF i = 1
         THEN /\ loopStartTime'[1] = now
              /\ \A k \in Subs :
                   (state'[k] = "playing" /\ HasBuffer(k)) => Aligned(k)'
         ELSE (masterIsSet /\ state[1] = "playing") => Aligned(i)']_vars

\* C20: in every reachable state, stopPlayback applied twice to a track
\* leaves exactly what one application leaves (stopped, the same buffer and
\* chain), and abortRecording applied twice leaves what one application
\* leaves (ready, no buffer, no capture node).
C20_CancelIdempotent ==
  \A i \in Tracks :
    LET stopped == stopPlayback(Cur, i)
        aborted == abortRecording(Cur, i)
    IN /\ stopPlayback(stopped, i) = stopped
       /\ stopped.state[i] = "stopped"
       /\ stopped.loopBuffer = loopBuffer
       /\ stopped.fx = fx
       /\ abortRecording(aborted, i) = aborted
       /\ aborted.state[i] = "ready"
       /\ aborted.loopBuffer[i] = Null
       /\ ~ aborted.workletNode[i]

\* track 1 was stopped while it played its loop, and the recording of a
\* subordinate track was given up: a second stop or abort changes neither
C20_Witness ==
  /\ state[1] = "stopped" /\ HasBuffer(1) /\ sourceNode[1] = "stopped"
  /\ stopPlayback(Cur, 1) = Cur
  /\ \E k \in Subs :
       /\ state[k] = "ready" /\ ~ workletNode[k] /\ dumps[k] = 0
       /\ \E t \in timers : t.kind = "autoStop" /\ t.track = k
       /\ abortRecording(Cur, k) = Cur

\* C21: a recording that starts while the recorder worklet node cannot be
\* created still schedules its recording-duration timer, for the requested
\* length; when that timer runs the track leaves the recording state, no
\* loop buffer is created, and nothing is scheduled or captured again.
C21_FailedCaptureCompletes ==
  [][/\ \A i \in Tracks :
          (/\ ~ workletReady
           /\ state[i] # "recording" /\ state'[i] = "recording") =>
             /\ ~ workletNode'[i]
             /\ loopBuffer'[i] = Null
             /\ \E t \in timers' \ timers :
                  /\ t.kind = "fallback" /\ t.track = i
                  /\ 2 * (t.due - now) >= targetLenSec'[i]
                  /\ 2 * (t.due - now) < targetLenSec'[i] + 2
      /\ \A t \in timers :
          FallbackTimer(t) =>
             /\ state'[t.track] # "recording"
             /\ loopBuffer' = loopBuffer
             /\ workletNode' = workletNode
             /\ dumps' = dumps
             /\ timers' = timers \ {t}]_vars

\* the worklet never loaded, track 1 ran its whole recording time and left
\* the recording state without a buffer
C21_Witness ==
  /\ ~ workletReady /\ timers = {}
  /\ now >= MaxRecSec
  /\ state[1] = "playing" /\ ~ HasBuffer(1) /\ sourceNode[1] = "null"

\* the tempo-synced delay time for the current tempo and popup settings
NoteDelay ==
  clamp(Times(quarterSecForBPM(masterBPM),
              applyVariant(NOTE_MULT(beforeDelay.division), beforeDelay.variant)),
        0, 2)

\* C22: whenever masterLoopDuration changes the Before-FX delay time is
\* recomputed: after a master commit in note mode it is
\* clamp(quarter-note seconds x division multiplier x variant, 0, 2), and
\* after the master is cleared (masterLoopDuration null) it is back at its
\* milliseconds default clamp(delayMs / 1000, 0, 2).
C22_DelayFollowsMaster ==
  [][/\ (/\ masterLoopDuration' # masterLoopDuration
         /\ masterLoopDuration' # Null
         /\ beforeDelay.mode = "note") =>
           beforeDelay'.time = NoteDelay'
     /\ (masterLoopDuration # Null /\ masterLoopDuration' = Null) =>
           beforeDelay'.time = clamp(Frac(beforeDelay.ms, 1000), 0, 2)]_vars

\* the state changes of the transport: record, wait for the master, commit,
\* abort, overdub, stop, resume
TransportChanges ==
  {<<"ready", "recording">>, <<"ready", "waiting">>, <<"waiting", "recording">>,
   <<"recording", "playing">>, <<"recording", "ready">>,
   <<"playing", "overdub">>, <<"overdub", "playing">>,
   <<"playing", "stopped">>, <<"overdub", "stopped">>,
   <<"stopped", "playing">>}

\* C23: every change of a track's state is one of ready->recording,
\* ready->waiting, waiting->recording, recording->playing, recording->ready,
\* playing->overdub, overdub->playing, playing->stopped, overdub->stopped,
\* stopped->playing, or a change to ready (by clear) from any state.
C23_OnlyListedChanges ==
  [][\A i \in Tracks :
       state'[i] # state[i] =>
         \/ <<state[i], state'[i]>> \in TransportChanges
         \/ state'[i] = "ready"]_vars

\* C24: a request that is not valid in the track's state is ignored and
\* changes nothing (state, buffer, pending timers and every other field):
\* the main button in waiting or stopped, the stop button in ready or
\* waiting, armOverdub in any state but playing.
C24_InvalidRequestIgnored ==
  \A i \in Tracks :
    /\ state[i] \in {"waiting", "stopped"} => handleMainBtn(Cur, i) = Cur
    /\ state[i] \in {"ready", "waiting"} => handleStopBtn(Cur, i) = Cur
    /\ state[i] # "playing" => armOverdub(Cur, i) = Cur

\* the master is stopped with its loop, track 2 waits for the loop boundary
\* with its phase-start timer pending, and buttons were pressed after both
C24_Witness ==
  /\ state[1] = "stopped" /\ HasBuffer(1)
  /\ state[2] = "waiting"
  /\ \E t \in timers : t.kind = "phaseStart" /\ t.track = 2
  /\ presses = MaxPresses

\* a type name that AFTER_FX_CATALOG does not list
NotInCatalog == "Reverb"

\* adding an effect of a catalog type to track i appended one node with
\* first parameter p and bypass off, and kept the nodes before it
Appended(i, type, p) ==
  LET old == fx[i].chain
      new == fx'[i].chain
  IN /\ Len(new) = Len(old) + 1
     /\ SubSeq(new, 1, Len(old)) = old
     /\ new[Len(new)].type = type
     /\ new[Len(new)].param = p
     /\ new[Len(new)].bypass = FALSE

ChainIds(i) == [k \in 1..Len(fx[i].chain) |-> fx[i].chain[k].id]

\* the ids of track i's chain differ pairwise and are below nextId
IdsDistinct(i) ==
  /\ \A k, m \in 1..Len(fx[i].chain) :
       k # m => fx[i].chain[k].id # fx[i].chain[m].id
  /\ \A k \in 1..Len(fx[i].chain) : fx[i].chain[k].id < fx[i].nextId

\* C26: within a track's chain the effect ids are pairwise distinct in
\* every reachable state; ids are handed out in strictly increasing order
\* (a new node's id is larger than every id handed out before, so the id of
\* a removed node is never used again); move and toggleBypass change no id.
C26_IdsUniqueAndIncreasing ==
  [][\A i \in Tracks :
       /\ IdsDistinct(i) /\ IdsDistinct(i)'
       /\ fx'[i].nextId >= fx[i].nextId
       /\ \A type \in FxTypes :
            AddEffect(i, type) =>
              /\ fx'[i].chain[Len(fx'[i].chain)].id = fx[i].nextId
              /\ fx'[i].nextId > fx[i].nextId
       /\ \A id \in MenuIds(i) :
            /\ \A up \in BOOLEAN :
                 MoveEffect(i, id, up) =>
                   /\ MenuIds(i)' = MenuIds(i)
                   /\ fx'[i].nextId = fx[i].nextId
                   /\ \E k \in 1..Len(fx'[i].chain) :
                        fx'[i].chain[k] = fx[i].chain[IndexOf(fx[i].chain, id)]
            /\ ToggleBypass(i, id) =>
                 /\ ChainIds(i)' = ChainIds(i)
                 /\ fx'[i].nextId = fx[i].nextId]_vars

\* an effect was added after the first one was removed, and then moved to
\* the top of the chain
C26_Witness ==
  \E i \in Tracks :
    /\ Len(fx[i].chain) = 2
    /\ fx[i].chain[1].id = 3 /\ fx[i].chain[2].id = 2
    /\ fx[i].nextId = 4

\* ids a request can carry: every id handed out so far and two that never were
RequestIds == 0..(MaxPresses + 1)

\* C27: removeEffect, moveEffect and toggleBypass called with an id that is
\* not in the track's chain leave the chain (order, parameters, bypass
\* flags), the live wiring, the track state and everything else unchanged.
C27_MissingIdIgnored ==
  \A i \in Tracks : \A id \in RequestIds \ MenuIds(i) :
    /\ removeEffect(Cur, i, id) = Cur
    /\ moveEffect(Cur, i, id, TRUE) = Cur
    /\ moveEffect(Cur, i, id, FALSE) = Cur
    /\ toggleBypass(Cur, i, id) = Cur

\* a playing track whose chain lost the effect with id 1 and keeps a Pitch
\* effect and a bypassed effect, wired
C27_Witness ==
  \E i \in Tracks :
    /\ state[i] = "playing" /\ wiring[i].on
    /\ Len(fx[i].chain) = 2
    /\ 1 \notin MenuIds(i)
    /\ \E k \in 1..2 : fx[i].chain[k].type = "Pitch"
    /\ \E k \in 1..2 : fx[i].chain[k].bypass

\* chain with the nodes at places k and j exchanged
Swapped(chain, k, j) ==
  [m \in 1..Len(chain) |->
     IF m = k THEN chain[j] ELSE IF m = j THEN chain[k] ELSE chain[m]]

\* C28: moveEffect(id, up|down) exchanges the node with its immediate
\* neighbour on that side and changes nothing else (same nodes, ids,
\* parameters, bypass flags, nextId, track pitch, track state and loop);
\* moving the first node up or the last node down leaves the chain as it is.
C28_MoveSwapsNeighbour ==
  [][\A i \in Tracks : \A id \in MenuIds(i) : \A up \in BOOLEAN :
       MoveEffect(i, id, up) =>
         LET chain == fx[i].chain
             k == IndexOf(chain, id)
             j == IF up THEN k - 1 ELSE k + 1
         IN /\ fx'[i].chain = IF j \in 1..Len(chain) THEN Swapped(chain, k, j)
                              ELSE chain
            /\ fx'[i].nextId = fx[i].nextId
            /\ \A o \in Tracks \ {i} : fx'[o] = fx[o]
            /\ pitchSemitones' = pitchSemitones
            /\ state' = state /\ loopBuffer' = loopBuffer
            /\ sourceNode' = sourceNode]_vars

\* the third of three effects was moved up twice, to the top
C28_Witness ==
  \E i \in Tracks :
    /\ Len(fx[i].chain) = 3
    /\ ChainIds(i) = <<3, 1, 2>>

\* track i's effect chain and nextId after moving id one way and back
ThereAndBack(i, id, up) ==
  moveEffect(moveEffect(Cur, i, id, up), i, id, ~ up).fx[i]

\* C29: for every chain and every node that is not at the top, moving it up
\* and then down restores the chain (order, and with it every node); the
\* same for down and then up for a node that is not at the bottom.
C29_MoveRoundTrip ==
  \A i \in Tracks : \A id \in MenuIds(i) :
    LET k == IndexOf(fx[i].chain, id)
    IN /\ k > 1 => ThereAndBack(i, id, TRUE) = fx[i]
       /\ k < Len(fx[i].chain) => ThereAndBack(i, id, FALSE) = fx[i]

\* three effects, the last one moved up once, the middle one bypassed
C29_Witness ==
  \E i \in Tracks :
    /\ Len(fx[i].chain) = 3
    /\ ChainIds(i) = <<1, 3, 2>>
    /\ fx[i].chain[2].bypass

\* C30: toggleBypass(id) flips the bypass flag of that node and of no
\* other: the chain's order, ids and parameter values stay as they are, the
\* node keeps its place, and toggling twice gives back the original chain.
C30_ToggleFlipsOneFlag ==
  [][\A i \in Tracks : \A id \in MenuIds(i) :
       LET k == IndexOf(fx[i].chain, id)
       IN /\ toggleBypass(toggleBypass(Cur, i, id), i, id).fx[i] = fx[i]
          /\ ToggleBypass(i, id) =>
               /\ fx'[i].chain = [fx[i].chain EXCEPT ![k].bypass = ~ @]
               /\ fx'[i].nextId = fx[i].nextId
               /\ \A o \in Tracks \ {i} : fx'[o] = fx[o]
               /\ pitchSemitones' = pitchSemitones
               /\ state' = state /\ loopBuffer' = loopBuffer]_vars

\* the second of two effects is bypassed, behind one whose slider was moved
C30_Witness ==
  \E i \in Tracks :
    /\ Len(fx[i].chain) = 2
    /\ fx[i].chain[1].param # CatalogDefault(fx[i].chain[1].type)
    /\ ~ fx[i].chain[1].bypass
    /\ fx[i].chain[2].bypass

\* C31: a rewire of a track that has a playback source connects
\* source -> n1 -> .. -> nk -> track gain -> master bus, where n1..nk are
\* exactly the chain's nodes that are neither bypassed nor of type Pitch, in
\* chain order; no Pitch node is on the path, and with an empty or fully
\* bypassed chain the source feeds the gain directly.
C31_RewirePath ==
  \A i \in Tracks :
    sourceNode[i] # "null" =>
      LET chain == fx[i].chain
          wired == rebuildChainWiring(Cur, i).wiring[i]
          places == {k \in 1..Len(chain) :
                       chain[k].type # "Pitch" /\ ~ chain[k].bypass}
      IN /\ wired.on
         /\ wired.path = ActivePath(chain)
         /\ {wired.path[n] : n \in 1..Len(wired.path)} = {chain[k].id : k \in places}
         /\ \A n, m \in 1..Len(wired.path) :
              n < m => IndexOf(chain, wired.path[n]) < IndexOf(chain, wired.path[m])
         /\ (\A k \in 1..Len(chain) : chain[k].bypass) => wired.path = <<>>

\* a playing track wired through the one effect of three that is neither
\* Pitch nor bypassed
C31_Witness ==
  \E i \in Tracks :
    /\ state[i] = "playing" /\ sourceNode[i] = "live" /\ wiring[i].on
    /\ Len(fx[i].chain) = 3
    /\ \E k \in 1..3 : fx[i].chain[k].type = "Pitch"
    /\ \E k \in 1..3 : fx[i].chain[k].type # "Pitch" /\ fx[i].chain[k].bypass
    /\ Len(wiring[i].path) = 1

\* C32: while a track plays back (a live source in state playing or
\* overdub) its connected path is the active subsequence of its current
\* chain - the non-bypassed, non-Pitch nodes in chain order - so it never
\* runs through a removed node: every add, remove, move and toggleBypass
\* rebuilds the path at once.
C32_LivePathFollowsChain ==
  \A i \in Tracks :
    (sourceNode[i] = "live" /\ state[i] \in {"playing", "overdub"}) =>
      /\ wiring[i].on
      /\ wiring[i].path = ActivePath(fx[i].chain)

\* a phase computed for a loop of length d: within [0, d), and 0 when the
\* loop has no length
PhaseOk(phase, d) == IF d > 0 THEN phase \in 0..(d - 1) ELSE phase = 0

\* C33: every loop phase computed as (now - loopStartTime) mod duration -
\* by phaseLockedRecord for a subordinate track with the master set, by
\* armOverdub for a playing track, by startPlayback for a track with a
\* buffer - lies in [0, duration) when duration > 0 and is 0, not an
\* undefined value, when the duration is zero.
C33_PhaseInRange ==
  \A i \in Tracks :
    /\ (i >= 2 /\ masterIsSet) => PhaseOk(masterElapsed(Cur), masterLoopDuration)
    /\ state[i] = "playing" => PhaseOk(overdubElapsed(Cur, i), loopDuration[i])
    /\ HasBuffer(i) => PhaseOk(playbackOffset(Cur, i), masterLoopDuration)

\* the Clock: masterLoopDuration, masterBPM, masterIsSet
Clock == <<masterLoopDuration, masterBPM, masterIsSet>>

\* C34: the Clock changes only in track 1's record commit and in track 1's
\* clear; every step of a subordinate track (its buttons, divider, timers,
\* recorder replies, chain edits) leaves it unchanged.
C34_ClockWrittenByMasterOnly ==
  [][Clock' # Clock =>
       \/ ClearBtn(1)
       \/ \E length \in FrameCounts : DumpMsg(1, length)]_vars

\* the Clock is set and track 2 has recorded, played and stopped its own loop
C34_Witness ==
  /\ masterIsSet /\ masterLoopDuration # Null
  /\ HasBuffer(2) /\ state[2] = "stopped"

\* C35: the auto-stop timer of one recording never ends a later recording
\* of the same track. For track 1, whose recordings all request the same
\* length, the timer of the running recording is the one that is due last:
\* an auto-stop that ends track 1's capture has no auto-stop of track 1
\* pending behind it.
C35_AutoStopEndsOwnRecording ==
  [][\A t \in timers :
       (/\ AutoStopTimer(t)
        /\ t.track = 1
        /\ state[1] = "recording" /\ workletNode[1] /\ ~ workletNode'[1])
         => ~ \E u \in timers :
                u.kind = "autoStop" /\ u.track = 1 /\ u.due > t.due]_vars

\* C36: once a track is stopped its state and loopBuffer stay as they are
\* until that track is resumed (stop button) or cleared, or track 1 is
\* cleared: no timer and no recorder callback merges audio into the buffer
\* or restarts playback.
C36_StoppedStays ==
  [][\A i \in Tracks :
       (state[i] = "stopped" /\ (state'[i] # "stopped" \/ loopBuffer'[i] # loopBuffer[i]))
         => \/ StopBtn(i)
            \/ ClearBtn(i)
            \/ ClearBtn(1)]_vars

\* C37: the Clock never diverges from track 1: masterIsSet holds exactly
\* when masterLoopDuration is non-null, and then masterLoopDuration is
\* track 1's loopDuration and track 1 has a committed buffer - in every
\* reachable state, also after an overdub on track 1.
C37_ClockMatchesMaster ==
  /\ masterIsSet <=> masterLoopDuration # Null
  /\ masterIsSet =>
       /\ masterLoopDuration = loopDuration[1]
       /\ HasBuffer(1)

\* C38: a track has at most one active capture - a recorder worklet node or
\* a recording MediaRecorder - at any time, and a capture never starts
\* while one of the track is still running, which would overwrite its
\* handle.
C38_OneActiveCapture ==
  [][\A i \in Tracks :
       /\ ~ (workletNode[i] /\ mediaRecorder[i] = "recording")
       /\ ~ (workletNode'[i] /\ mediaRecorder'[i] = "recording")
       /\ (\E t \in timers : OverdubStartTimer(t) /\ t.track = i)
            => mediaRecorder[i] # "recording"
       /\ (\E t \in timers' \ timers : t.kind = "autoStop" /\ t.track = i)
            => ~ workletNode[i]]_vars

\* frames of the blocks stored before block b
FramesBefore(buffers, b) ==
  LET RECURSIVE sum(_)
      sum(k) == IF k = 0 THEN 0 ELSE sum(k - 1) + Len(buffers[k][1])
  IN sum(b - 1)

\* the message carries every sample of every stored block, block after block
CarriesAll(msg, buffers) ==
  /\ msg.cmd = "dump"
  /\ msg.length = FramesBefore(buffers, Len(buffers) + 1)
  /\ \A ch \in 1..Len(msg.channels) : Len(msg.channels[ch]) = msg.length
  /\ \A b \in 1..Len(buffers) : \A ch \in 1..Len(buffers[b]) :
       /\ ch <= Len(msg.channels)
       /\ \A f \in 1..Len(buffers[b][ch]) :
            msg.channels[ch][FramesBefore(buffers, b) + f] = buffers[b][ch][f]

\* C39: in every state of the recorder worklet a 'dump' message posts all the
\* blocks stored since the last reset or dump, in arrival order, with length
\* equal to the total number of their frames, and empties the store; on an
\* empty store it posts length 0 and no channels.
C39_DumpReturnsAllBlocks ==
  LET after == dump(recorder)
  IN /\ after.buffers = <<>>
     /\ CarriesAll(after.posted, recorder.buffers)
     /\ recorder.buffers = <<>> =>
          after.posted.length = 0 /\ after.posted.channels = <<>>

\* the same for a store whose blocks all have the channel count of the first
C39_DumpOfUniformBlocks ==
  (\A b \in 1..Len(recorder.buffers) :
      Len(recorder.buffers[b]) = Len(recorder.buffers[1]))
    => C39_DumpReturnsAllBlocks

\* a dump of several equal blocks has been posted
C39_UniformDumpPosted ==
  /\ recorder.posted.length = 2 * RenderQuantum
  /\ Len(recorder.posted.channels) = 2
  /\ recorder.buffers = <<>>

\* C40: after every handler of the synth keyboard, while hold is off every
\* MIDI note of activeVoices is in heldKeys, and activeVoices holds at most
\* one voice per MIDI note.
C40_VoicesAreHeldKeys ==
  /\ ~ synth.sustain => \A e \in synth.activeVoices : e.midi \in synth.heldKeys
  /\ \A e1, e2 \in synth.activeVoices : e1.midi = e2.midi => e1 = e2

\* hold is off, one key has been released to its timer and another one still
\* sounds and is held
C40_Witness ==
  /\ ~ synth.sustain
  /\ synth.releasing # {}
  /\ synth.activeVoices # {}
  /\ \A e \in synth.activeVoices : e.midi \in synth.heldKeys

====
